---- MODULE Spec2Model ----
(***************************************************************************)
(* kstruct-tuner: co-access graph construction (proximity-graph.py) and    *)
(* greedy clustering with insights (hierarchical-clustering.py).           *)
(*                                                                         *)
(* Field names are modelled by the integers 1..NumFields, ordered as the   *)
(* names are ordered lexicographically (1 = "A", 2 = "B", 3 = "C", ...).   *)
(* Timestamps are integer ticks.  Python lists are sequences; a 0-based    *)
(* Python index i reads element i + 1 of the sequence.  A Python dict is a *)
(* function whose DOMAIN is the key set.                                   *)
(***************************************************************************)
EXTENDS Integers, Sequences, FiniteSets, TLC

\* ---------------------------------------------------------------- bounds
NumFields == 3
MaxWindowEvents == 3
MaxStackEvents == 4
MaxUnsortedStackEvents == 2
MaxParam == 2

Fields == 1..NumFields
Times == {0, 1, 2}
WindowSizes == {0, 1}
Thresholds == 0..MaxParam
ChunkSizes == {2, 4}
Weights == {0, 1, 5}
TopNs == {1, 20}

VARIABLES
    method,              \* --method: "window" | "stack" ("none": proximity-graph.py was not run)
    param,               \* --window_size or --stack_distance_threshold
    chunksize,           \* rows per chunk handed to read_csv
    rows,                \* the input CSV: sequence of [Timestamp, Field]
    next_row,            \* rows already consumed by chunk_iter
    results,             \* the AsyncResult list: [chunk, ready, value]
    got,                 \* number of results already retrieved by result.get()
    merged_field_pairs,  \* the global pair-count dict
    csv,                 \* the adjacency-matrix file (sequence of text rows), <<>> before it exists
    pc,                  \* position of the run
    df,                  \* hierarchical-clustering.py: the DataFrame read from csv
    clusters,            \* hierarchical_clustering: clusters dict
    edges,               \* hierarchical_clustering: sorted edge list
    e,                   \* number of edges already processed by hierarchical_clustering
    reordered_fields,    \* return value of hierarchical_clustering
    mclusters,           \* main: clusters dict of the re-run
    medges,              \* main: sorted edge list of the re-run
    me,                  \* number of edges already processed by the re-run
    top_n,               \* --top_n
    top_pairs,           \* compute_top_pairs result
    inter_links,         \* compute_intercluster_links result
    cohesion,            \* cluster cohesion records of the text report
    json_cohesion        \* cluster cohesion records of the JSON payload (<<>> without --json_out)

vars == <<method, param, chunksize, rows, next_row, results, got, merged_field_pairs,
          csv, pc, df, clusters, edges, e, reordered_fields, mclusters, medges, me,
          top_n, top_pairs, inter_links, cohesion, json_cohesion>>

graphVars == <<method, param, chunksize, rows, next_row, results, got, merged_field_pairs>>
hcVars == <<clusters, edges, e, reordered_fields>>
rerunVars == <<mclusters, medges, me>>
insightVars == <<top_n, top_pairs, inter_links, cohesion, json_cohesion>>

\* ------------------------------------------------------- generic helpers
EmptyDict == [k \in {} |-> 0]

\* dict.get(k, 0)
Get(d, k) == IF k \in DOMAIN d THEN d[k] ELSE 0

\* d[k] = c
Put(d, k, c) == [p \in DOMAIN d \cup {k} |-> IF p = k THEN c ELSE d[p]]

\* tuple(sorted([a, b]))
Pair(a, b) == IF a <= b THEN <<a, b>> ELSE <<b, a>>

\* the ascending list of a finite set of integers: sorted(set(...)), and the
\* iteration order of a dict whose keys were inserted in ascending order
RECURSIVE Ascending(_)
Ascending(S) ==
    IF S = {} THEN <<>>
    ELSE LET m == CHOOSE x \in S : \A y \in S : x <= y
         IN  <<m>> \o Ascending(S \ {m})

Range(s) == {s[k] : k \in DOMAIN s}

\* ------------------------------------------------ proximity-graph.py
\* dtype={'Timestamp': 'float32'}: an integer tick is kept exactly up to 2^24 and
\* rounded to the nearest even multiple of the spacing above it (2 up to 2^25)
float32(t) ==
    IF t <= 16777216 THEN t
    ELSE IF t % 2 = 0 THEN t
    ELSE IF ((t + 1) \div 2) % 2 = 0 THEN t + 1 ELSE t - 1

\* a chunk that is scanned in row order, without the sort
sort_values_skipped(chunk) == {chunk}

\* the orders in which the rows numbered in `left` can follow each other when
\* every row comes before all rows of a greater timestamp
RECURSIVE sorted_orders(_, _)
sorted_orders(chunk, left) ==
    IF left = {} THEN {<<>>}
    ELSE UNION {{<<chunk[i]>> \o rest : rest \in sorted_orders(chunk, left \ {i})}
                : i \in {a \in left : \A b \in left :
                            chunk[a].Timestamp <= chunk[b].Timestamp}}

\* chunk_data.sort_values('Timestamp'): the default sort is not stable, so rows of
\* equal timestamp may come out in any order
sort_values(chunk) == sorted_orders(chunk, 1..Len(chunk))

\* field_pairs[pair] = field_pairs.get(pair, 0) + 1
count_pair(field_pairs, current_field, other) ==
    Put(field_pairs, Pair(current_field, other),
        Get(field_pairs, Pair(current_field, other)) + 1)

\* the guard `if fields[j] != current_field`
counted(current_field, other) == other # current_field

\* a scan that stops one tick early
in_window_strict(delta, window_size) == delta < window_size

\* the loop conditions `current_time - timestamps[j] <= window_size` (line 17) and
\* `timestamps[j] - current_time <= window_size` (line 24)
in_window(delta, window_size) == delta <= window_size

\* lines 16-21: the backward scan from row i (1-based here)
RECURSIVE window_backward(_, _, _, _, _)
window_backward(s, window_size, i, j, field_pairs) ==
    IF j >= 1 /\ in_window(s[i].Timestamp - s[j].Timestamp, window_size)
    THEN window_backward(s, window_size, i, j - 1,
            IF counted(s[i].Field, s[j].Field)
            THEN count_pair(field_pairs, s[i].Field, s[j].Field)
            ELSE field_pairs)
    ELSE field_pairs

\* lines 23-28: the forward scan from row i
RECURSIVE window_forward(_, _, _, _, _)
window_forward(s, window_size, i, j, field_pairs) ==
    IF j <= Len(s) /\ in_window(s[j].Timestamp - s[i].Timestamp, window_size)
    THEN window_forward(s, window_size, i, j + 1,
            IF counted(s[i].Field, s[j].Field)
            THEN count_pair(field_pairs, s[i].Field, s[j].Field)
            ELSE field_pairs)
    ELSE field_pairs

\* lines 12-28: the loop over the rows of the sorted chunk
RECURSIVE window_loop(_, _, _, _)
window_loop(s, window_size, i, field_pairs) ==
    IF i > Len(s) THEN field_pairs
    ELSE window_loop(s, window_size, i + 1,
            window_forward(s, window_size, i, i + 1,
                window_backward(s, window_size, i, i - 1, field_pairs)))

\* the possible return values of process_chunk_window (one per outcome of the sort)
process_chunk_window(chunk_data, window_size) ==
    {window_loop(s, window_size, 1, EmptyDict) : s \in sort_values(chunk_data)}

\* access_stack.remove(current_field): drops the first occurrence
stack_remove(access_stack, current_field) ==
    LET k == CHOOSE i \in 1..Len(access_stack) :
                 /\ access_stack[i] = current_field
                 /\ \A j \in 1..(i - 1) : access_stack[j] # current_field
    IN  SubSeq(access_stack, 1, k - 1) \o SubSeq(access_stack, k + 1, Len(access_stack))

\* lines 40-42: move the current field to the top (the end) of the stack
stack_push(access_stack, current_field) ==
    Append(IF current_field \in Range(access_stack)
           THEN stack_remove(access_stack, current_field)
           ELSE access_stack,
           current_field)

\* a scan that stops one stack position early
beyond_inclusive(distance, stack_distance_threshold) == distance >= stack_distance_threshold

\* the guard `if distance > stack_distance_threshold: break`
beyond(distance, stack_distance_threshold) == distance > stack_distance_threshold

\* lines 44-49: enumerate(reversed(access_stack[:-1]), start=1)
RECURSIVE stack_scan(_, _, _, _, _)
stack_scan(access_stack, threshold, current_field, distance, field_pairs) ==
    IF distance > Len(access_stack) - 1 THEN field_pairs
    ELSE IF beyond(distance, threshold) THEN field_pairs
    ELSE LET stack_field == access_stack[Len(access_stack) - distance]
         IN  stack_scan(access_stack, threshold, current_field, distance + 1,
                IF current_field # stack_field
                THEN count_pair(field_pairs, current_field, stack_field)
                ELSE field_pairs)

\* lines 37-49: the loop over the rows of the chunk, in row order
RECURSIVE stack_loop(_, _, _, _, _)
stack_loop(chunk_data, threshold, r, access_stack, field_pairs) ==
    IF r > Len(chunk_data) THEN field_pairs
    ELSE LET pushed == stack_push(access_stack, chunk_data[r].Field)
         IN  stack_loop(chunk_data, threshold, r + 1, pushed,
                stack_scan(pushed, threshold, chunk_data[r].Field, 1, field_pairs))

\* line 37: iterrows yields the rows of the chunk as they stand, first row first
iterrows(chunk_data) == chunk_data

\* a counter whose stack still holds a field when the chunk begins
process_chunk_stack_leftover(chunk_data, stack_distance_threshold) ==
    stack_loop(iterrows(chunk_data), stack_distance_threshold, 1, <<1>>, EmptyDict)

process_chunk_stack(chunk_data, stack_distance_threshold) ==
    stack_loop(iterrows(chunk_data), stack_distance_threshold, 1, <<>>, EmptyDict)

\* a get that hands back whatever the result holds, without waiting for the task
no_wait(result) == TRUE

\* line 87: result.get() returns once the task of the result has ended
result_ready(result) == result.ready

\* an exception of result.get() that is caught, so that the loop goes on
swallowed == "collect"

\* line 87: result.get() raises in the parent what the task raised in the worker;
\* nothing catches it, so it leaves the with block, process_in_chunks and main
uncaught == "aborted"

\* a merge that overwrites the count instead of adding to it
merge_count_overwrite(merged_pairs, pair, count) == count

\* merged_pairs[pair] = merged_pairs.get(pair, 0) + count
merge_count(merged_pairs, pair, count) == Get(merged_pairs, pair) + count

merge_field_pairs_incrementally(new_pairs, merged_pairs) ==
    [pair \in DOMAIN merged_pairs \cup DOMAIN new_pairs |->
        IF pair \in DOMAIN new_pairs
        THEN merge_count(merged_pairs, pair, new_pairs[pair])
        ELSE merged_pairs[pair]]

\* a fill that writes the upper cell only
set_cells_unmirrored(adj_matrix, i, j, count) == [adj_matrix EXCEPT ![<<i, j>>] = count]

\* adj_matrix[i, j] = count; adj_matrix[j, i] = count
set_cells(adj_matrix, i, j, count) ==
    [adj_matrix EXCEPT ![<<i, j>>] = count, ![<<j, i>>] = count]

RECURSIVE fill_matrix(_, _, _, _)
fill_matrix(adj_matrix, field_index, field_pairs, todo) ==
    IF todo = {} THEN adj_matrix
    ELSE LET pair == CHOOSE p \in todo : TRUE
         IN  fill_matrix(set_cells(adj_matrix, field_index[pair[1]], field_index[pair[2]],
                                   field_pairs[pair]),
                         field_index, field_pairs, todo \ {pair})

\* a DataFrame: row labels, column labels, and values indexed from 0
DataFrame(values, index, columns) == [index |-> index, columns |-> columns, values |-> values]

create_adjacency_matrix(field_pairs) ==
    LET fields == Ascending(UNION {{pair[1], pair[2]} : pair \in DOMAIN field_pairs})
        n == Len(fields)
        zeros == [c \in (0..(n - 1)) \X (0..(n - 1)) |-> 0]
        field_index == [f \in Range(fields) |-> (CHOOSE k \in 1..n : fields[k] = f) - 1]
    IN  DataFrame(fill_matrix(zeros, field_index, field_pairs, DOMAIN field_pairs),
                  fields, fields)

\* DataFrame.to_csv: a header row (an empty corner cell, then the column labels) and
\* one text row per index label: the label, then the cells of that row
to_csv(frame) ==
    LET n == Len(frame.index)
        m == Len(frame.columns)
    IN  <<[label |-> 0, cells |-> frame.columns]>> \o
        [r \in 1..n |-> [label |-> frame.index[r],
                         cells |-> [c \in 1..m |-> frame.values[<<r - 1, c - 1>>]]]]

\* pd.read_csv(path, index_col=0)
read_csv(file) ==
    LET n == Len(file) - 1
        columns == file[1].cells
        m == Len(columns)
    IN  DataFrame([c \in (0..(n - 1)) \X (0..(m - 1)) |-> file[c[1] + 2].cells[c[2] + 1]],
                  [r \in 1..n |-> file[r + 1].label],
                  columns)

\* ------------------------------------------- hierarchical-clustering.py
None == -1

Min(a, b) == IF a <= b THEN a ELSE b

\* a slice that keeps the whole list
keep_all(s, n) == s

\* s[:top_n]
truncate(s, n) == SubSeq(s, 1, Min(n, Len(s)))

\* a descending sort that puts an element before the elements of equal key
RECURSIVE insert_before_equal(_, _, _)
insert_before_equal(s, x, key) ==
    IF s = <<>> THEN <<x>>
    ELSE IF s[1][key] > x[key] THEN <<s[1]>> \o insert_before_equal(Tail(s), x, key)
    ELSE <<x>> \o s

\* the place of x in a list sorted with reverse=True on element `key`: after every
\* element whose key is not smaller (the sort is stable)
RECURSIVE insert_desc(_, _, _)
insert_desc(s, x, key) ==
    IF s = <<>> THEN <<x>>
    ELSE IF s[1][key] >= x[key] THEN <<s[1]>> \o insert_desc(Tail(s), x, key)
    ELSE <<x>> \o s

\* list.sort(reverse=True, key=lambda x: x[key - 1])
RECURSIVE sort_reverse(_, _)
sort_reverse(s, key) ==
    IF s = <<>> THEN <<>>
    ELSE insert_desc(sort_reverse(SubSeq(s, 1, Len(s) - 1), key), s[Len(s)], key)

\* a filter that also drops the edges of weight 1
above_one(w) == w > 1

\* the filter `if matrix[i, j] > 0`
positive(w) == w > 0

\* [(matrix[i, j], i, j) for i in range(n) for j in range(i + 1, n) if matrix[i, j] > 0],
\* walked in row-major order from cell k
RECURSIVE edge_list(_, _, _)
edge_list(matrix, n, k) ==
    IF k >= n * n THEN <<>>
    ELSE LET i == k \div n
             j == k % n
         IN  (IF j > i /\ positive(matrix[<<i, j>>])
              THEN <<(<<matrix[<<i, j>>], i, j>>)>> ELSE <<>>)
             \o edge_list(matrix, n, k + 1)

\* the same list sorted without reverse=True
RECURSIVE insert_asc(_, _, _)
insert_asc(s, x, key) ==
    IF s = <<>> THEN <<x>>
    ELSE IF s[1][key] <= x[key] THEN <<s[1]>> \o insert_asc(Tail(s), x, key)
    ELSE <<x>> \o s

RECURSIVE sort_forward(_, _)
sort_forward(s, key) ==
    IF s = <<>> THEN <<>>
    ELSE insert_asc(sort_forward(SubSeq(s, 1, Len(s) - 1), key), s[Len(s)], key)

sorted_edges_ascending(headers, matrix) == sort_forward(edge_list(matrix, Len(headers), 0), 1)

\* hierarchical_clustering, lines 11-12
sorted_edges(headers, matrix) == sort_reverse(edge_list(matrix, Len(headers), 0), 1)

\* clusters = {i: [headers[i]] for i in range(n)}
singletons(headers) == [i \in 0..(Len(headers) - 1) |-> <<headers[i + 1]>>]

\* hierarchical_clustering, lines 15-22: the scan of clusters.items()
RECURSIVE find_clusters(_, _, _, _, _)
find_clusters(cl, ids, field_i, field_j, found) ==
    IF ids = <<>> THEN found
    ELSE LET cluster_id == Head(ids)
             cluster_i == IF field_i \in Range(cl[cluster_id]) THEN cluster_id ELSE found[1]
             cluster_j == IF field_j \in Range(cl[cluster_id]) THEN cluster_id ELSE found[2]
         IN  IF cluster_i # None /\ cluster_j # None THEN <<cluster_i, cluster_j>>
             ELSE find_clusters(cl, Tail(ids), field_i, field_j, <<cluster_i, cluster_j>>)

\* a merge that leaves the absorbed cluster in the dict
merge_without_del(cl, cluster_i, cluster_j) ==
    IF cluster_i # cluster_j
    THEN [c \in DOMAIN cl |->
            IF c = cluster_i THEN cl[cluster_i] \o cl[cluster_j] ELSE cl[c]]
    ELSE cl

\* a merge that keeps the lower of the two ids
merge_into_lower(cl, cluster_i, cluster_j) ==
    IF cluster_i # cluster_j
    THEN LET low == Min(cluster_i, cluster_j)
             high == IF cluster_i = low THEN cluster_j ELSE cluster_i
         IN  [c \in DOMAIN cl \ {high} |->
                IF c = low THEN cl[low] \o cl[high] ELSE cl[c]]
    ELSE cl

\* hierarchical_clustering, lines 24-26
merge_clusters(cl, cluster_i, cluster_j) ==
    IF cluster_i # cluster_j
    THEN [c \in DOMAIN cl \ {cluster_j} |->
            IF c = cluster_i THEN cl[cluster_i] \o cl[cluster_j] ELSE cl[c]]
    ELSE cl

\* hierarchical_clustering, lines 14-26: one iteration of the loop over edges
cluster_edge(headers, cl, edge) ==
    LET found == find_clusters(cl, Ascending(DOMAIN cl),
                               headers[edge[2] + 1], headers[edge[3] + 1], <<None, None>>)
    IN  merge_clusters(cl, found[1], found[2])

\* [idx for idx in range(n) if headers[idx] in cluster], from idx on
RECURSIVE cluster_indices(_, _, _)
cluster_indices(headers, cluster, idx) ==
    IF idx >= Len(headers) THEN <<>>
    ELSE (IF headers[idx + 1] \in Range(cluster) THEN <<idx>> ELSE <<>>)
         \o cluster_indices(headers, cluster, idx + 1)

\* line 28: for cluster in clusters.values() ...
RECURSIVE reordered_indices(_, _, _)
reordered_indices(headers, cl, ids) ==
    IF ids = <<>> THEN <<>>
    ELSE cluster_indices(headers, cl[Head(ids)], 0)
         \o reordered_indices(headers, cl, Tail(ids))

\* a layout that ignores the clusters
reorder_unclustered(headers, cl) == headers

\* lines 28-29
reorder(headers, cl) ==
    LET r == reordered_indices(headers, cl, Ascending(DOMAIN cl))
    IN  [k \in 1..Len(r) |-> headers[r[k] + 1]]

\* the re-run with its edges sorted without reverse=True
main_sorted_edges_ascending(headers, matrix) ==
    sort_forward(edge_list(matrix, Len(headers), 0), 1)

\* main, lines 111-112: the edge list of the re-run
main_sorted_edges(headers, matrix) == sort_reverse(edge_list(matrix, Len(headers), 0), 1)

\* main, lines 114-121
RECURSIVE main_find_clusters(_, _, _, _, _)
main_find_clusters(cl, ids, field_i, field_j, found) ==
    IF ids = <<>> THEN found
    ELSE LET cid == Head(ids)
             ci == IF field_i \in Range(cl[cid]) THEN cid ELSE found[1]
             cj == IF field_j \in Range(cl[cid]) THEN cid ELSE found[2]
         IN  IF ci # None /\ cj # None THEN <<ci, cj>>
             ELSE main_find_clusters(cl, Tail(ids), field_i, field_j, <<ci, cj>>)

\* main, lines 122-124
main_merge_clusters(cl, ci, cj) ==
    IF ci # cj
    THEN [c \in DOMAIN cl \ {cj} |-> IF c = ci THEN cl[ci] \o cl[cj] ELSE cl[c]]
    ELSE cl

\* main, lines 113-124: one iteration of the re-run
main_cluster_edge(headers, cl, edge) ==
    LET found == main_find_clusters(cl, Ascending(DOMAIN cl),
                                    headers[edge[2] + 1], headers[edge[3] + 1], <<None, None>>)
    IN  main_merge_clusters(cl, found[1], found[2])

\* lines 37-41: the (cols[i], cols[j], w) list, walked in row-major order from cell k
RECURSIVE pair_list(_, _, _)
pair_list(frame, n, k) ==
    IF k >= n * n THEN <<>>
    ELSE LET i == k \div n
             j == k % n
         IN  (IF j > i /\ frame.values[<<i, j>>] > 0
              THEN <<(<<frame.columns[i + 1], frame.columns[j + 1], frame.values[<<i, j>>]>>)>>
              ELSE <<>>)
             \o pair_list(frame, n, k + 1)

compute_top_pairs(frame, n_top) ==
    truncate(sort_reverse(pair_list(frame, Len(frame.columns), 0), 3), n_top)

\* position of a label in a label list (0-based)
position(labels, label) == (CHOOSE k \in 1..Len(labels) : labels[k] = label) - 1

\* df.loc[row_labels, col_labels].to_numpy(), indexed from 1
loc(frame, row_labels, col_labels) ==
    [p \in (1..Len(row_labels)) \X (1..Len(col_labels)) |->
        frame.values[<<position(frame.index, row_labels[p[1]]),
                       position(frame.columns, col_labels[p[2]])>>]]

SetMax(S) == CHOOSE x \in S : \A y \in S : y <= x

SetMin(S) == CHOOSE x \in S : \A y \in S : x <= y

\* a link weight that takes the weakest crossing cell
link_weight_min(frame, members_a, members_b) ==
    LET sub == loc(frame, members_a, members_b)
    IN  IF DOMAIN sub # {} THEN SetMin({sub[p] : p \in DOMAIN sub}) ELSE 0

\* lines 57-58
link_weight(frame, members_a, members_b) ==
    LET sub == loc(frame, members_a, members_b)
    IN  IF DOMAIN sub # {} THEN SetMax({sub[p] : p \in DOMAIN sub}) ELSE 0

\* lines 53-59: the nested loops over clusters.items(), from the a-th and b-th key on
RECURSIVE link_list(_, _, _, _, _)
link_list(frame, cl, ids, a, b) ==
    IF a > Len(ids) THEN <<>>
    ELSE IF b > Len(ids) THEN link_list(frame, cl, ids, a + 1, 1)
    ELSE (IF ids[a] >= ids[b] THEN <<>>
          ELSE <<(<<ids[a], ids[b], link_weight(frame, cl[ids[a]], cl[ids[b]])>>)>>)
         \o link_list(frame, cl, ids, a, b + 1)

compute_intercluster_links(frame, cl, n_top) ==
    truncate(sort_reverse(link_list(frame, cl, Ascending(DOMAIN cl), 1, 1), 3), n_top)

\* a sum over the whole sub-matrix instead of its upper triangle
RECURSIVE full_sum(_, _, _)
full_sum(sub, n_members, k) ==
    IF k >= n_members * n_members THEN 0
    ELSE sub[<<(k \div n_members) + 1, (k % n_members) + 1>>] + full_sum(sub, n_members, k + 1)

\* sub[np.triu_indices(n_members, k=1)].sum()
RECURSIVE triu_sum(_, _, _)
triu_sum(sub, n_members, k) ==
    IF k >= n_members * n_members THEN 0
    ELSE LET p == (k \div n_members) + 1
             q == (k % n_members) + 1
         IN  (IF q > p THEN sub[<<p, q>>] ELSE 0) + triu_sum(sub, n_members, k + 1)

\* density = intra_sum / denom if denom else 0.0, kept as the fraction <<num, den>>
density_of(intra_sum, n_members) ==
    LET twice_denom == n_members * (n_members - 1)
    IN  IF twice_denom # 0 THEN <<2 * intra_sum, twice_denom>> ELSE <<0, 1>>

\* main, lines 146-155: the cohesion line of one cluster in the text report
cohesion_of(frame, cid, members) ==
    LET n_members == Len(members)
    IN  IF n_members > 1
        THEN LET intra_sum == triu_sum(loc(frame, members, members), n_members, 0)
             IN  [cluster_id |-> cid, size |-> n_members, intra_sum |-> intra_sum,
                  density |-> density_of(intra_sum, n_members)]
        ELSE [cluster_id |-> cid, size |-> 1, intra_sum |-> 0, density |-> <<0, 1>>]

\* main, lines 190-205: the cohesion entry of one cluster in the JSON payload
json_cohesion_of(frame, cid, members) ==
    LET n_members == Len(members)
        intra_sum == IF n_members > 1
                     THEN triu_sum(loc(frame, members, members), n_members, 0) ELSE 0
    IN  [cluster_id |-> cid, size |-> n_members, intra_sum |-> intra_sum,
         density |-> IF n_members > 1 THEN density_of(intra_sum, n_members) ELSE <<0, 1>>]

\* ------------------------------------------------------------- inputs
Monotone(ts) ==
    \/ \A k \in 1..(Len(ts) - 1) : ts[k] <= ts[k + 1]
    \/ \A k \in 1..(Len(ts) - 1) : ts[k] >= ts[k + 1]

Trace(fs, ts) == [k \in 1..Len(fs) |-> [Timestamp |-> ts[k], Field |-> fs[k]]]

\* traces for the window method: any fields, timestamps in or against time order
WindowTraces ==
    UNION {{Trace(fs, ts) : fs \in [1..L -> Fields],
                            ts \in {t \in [1..L -> Times] : Monotone(t)}}
           : L \in 1..MaxWindowEvents}

\* traces for the stack method: any fields, one tick per row, in time order and,
\* for the short ones, against it (the stack counter reads no timestamp)
StackTraces ==
    UNION {{Trace(fs, ts) : fs \in [1..L -> Fields],
                            ts \in {[k \in 1..L |-> k - 1]} \cup
                                   (IF L <= MaxUnsortedStackEvents
                                    THEN {[k \in 1..L |-> L - k]} ELSE {})}
           : L \in 1..MaxStackEvents}

Cells == (0..(NumFields - 1)) \X (0..(NumFields - 1))
UpperCells == {c \in Cells : c[1] < c[2]}
LowerCells == {c \in Cells : c[1] > c[2]}

\* matrix files written by hand or by another tool: zero diagonal, any upper
\* triangle, and at most one lower cell that differs from its mirror cell
CsvMatrices ==
    {[c \in Cells |->
        IF c[1] = c[2] THEN 0
        ELSE IF c[1] < c[2] THEN upper[c]
        ELSE IF c = odd[1] THEN odd[2]
        ELSE upper[<<c[2], c[1]>>]]
     : upper \in [UpperCells -> Weights], odd \in LowerCells \X Weights}

NoFrame == DataFrame(EmptyDict, <<>>, <<>>)

InitClustering ==
    /\ df = NoFrame
    /\ clusters = EmptyDict
    /\ edges = <<>>
    /\ e = 0
    /\ reordered_fields = <<>>
    /\ mclusters = EmptyDict
    /\ medges = <<>>
    /\ me = 0
    /\ top_n = 0
    /\ top_pairs = <<>>
    /\ inter_links = <<>>
    /\ cohesion = <<>>
    /\ json_cohesion = <<>>

\* a run of proximity-graph.py on a trace, followed by hierarchical-clustering.py
InitTrace ==
    /\ method \in {"window", "stack"}
    /\ param \in (IF method = "window" THEN WindowSizes ELSE Thresholds)
    /\ rows \in (IF method = "window" THEN WindowTraces ELSE StackTraces)
    /\ chunksize \in ChunkSizes
    /\ next_row = 0
    /\ results = <<>>
    /\ got = 0
    /\ merged_field_pairs = EmptyDict
    /\ csv = <<>>
    /\ pc = "dispatch"
    /\ InitClustering

\* a run of hierarchical-clustering.py on a matrix file that is already there
InitCsv ==
    /\ method = "none"
    /\ param = 0
    /\ rows = <<>>
    /\ chunksize = 0
    /\ next_row = 0
    /\ results = <<>>
    /\ got = 0
    /\ merged_field_pairs = EmptyDict
    /\ csv \in {to_csv(DataFrame(m, Ascending(Fields), Ascending(Fields))) : m \in CsvMatrices}
    /\ pc = "csv"
    /\ InitClustering

Init == InitTrace \/ InitCsv

\* ------------------------------------------------------------ actions
\* process_in_chunks, lines 80-84: read the next chunk and hand it to the pool
Dispatch ==
    /\ pc = "dispatch"
    /\ LET last == Min(next_row + chunksize, Len(rows))
           chunk == [k \in 1..(last - next_row) |->
                        [Timestamp |-> float32(rows[next_row + k].Timestamp),
                         Field |-> rows[next_row + k].Field]]
       IN  /\ results' = Append(results, [chunk |-> chunk, ready |-> FALSE, ok |-> TRUE, value |-> EmptyDict])
           /\ next_row' = last
           /\ pc' = IF last = Len(rows) THEN "collect" ELSE "dispatch"
    /\ UNCHANGED <<method, param, chunksize, rows, got, merged_field_pairs, csv, df>>
    /\ UNCHANGED <<hcVars, rerunVars, insightVars>>

\* a pool worker runs the task of one chunk to its end and the task returns its
\* counts; the pool is gone once the with block of line 78 has been left
Worker ==
    /\ pc \in {"dispatch", "collect"}
    /\ \E k \in 1..Len(results) :
        /\ ~results[k].ready
        /\ \E v \in (IF method = "window"
                     THEN process_chunk_window(results[k].chunk, param)
                     ELSE {process_chunk_stack(results[k].chunk, param)}) :
            results' = [results EXCEPT ![k].ready = TRUE, ![k].value = v]
    /\ UNCHANGED <<method, param, chunksize, rows, next_row, got, merged_field_pairs, csv, pc, df>>
    /\ UNCHANGED <<hcVars, rerunVars, insightVars>>

\* process_in_chunks, lines 86-88: result.get() of the next result, then the merge
Collect ==
    /\ pc = "collect"
    /\ got < Len(results)
    /\ result_ready(results[got + 1])
    /\ merged_field_pairs' =
           merge_field_pairs_incrementally(results[got + 1].value, merged_field_pairs)
    /\ got' = got + 1
    /\ UNCHANGED <<method, param, chunksize, rows, next_row, results, csv, pc, df>>
    /\ UNCHANGED <<hcVars, rerunVars, insightVars>>

\* process_in_chunks, line 87: the task of the awaited result ends by raising (a
\* chunk its counter cannot handle, a worker out of memory) and result.get()
\* raises the same in the parent
Abort ==
    /\ pc = "collect"
    /\ got < Len(results)
    /\ ~results[got + 1].ready
    /\ results' = [results EXCEPT ![got + 1].ready = TRUE, ![got + 1].ok = FALSE]
    /\ pc' = uncaught
    /\ UNCHANGED <<method, param, chunksize, rows, next_row, got, merged_field_pairs, csv, df>>
    /\ UNCHANGED <<hcVars, rerunVars, insightVars>>

\* process_in_chunks, lines 90-91
CreateMatrix ==
    /\ pc = "collect"
    /\ got = Len(results)
    /\ csv' = to_csv(create_adjacency_matrix(merged_field_pairs))
    /\ pc' = "written"
    /\ UNCHANGED <<graphVars, df, hcVars, rerunVars, insightVars>>

\* proximity-graph.py returns from main: only the file it wrote is left
GraphExit ==
    /\ pc = "written"
    /\ param' = 0
    /\ chunksize' = 0
    /\ rows' = <<>>
    /\ next_row' = 0
    /\ results' = <<>>
    /\ got' = 0
    /\ merged_field_pairs' = EmptyDict
    /\ pc' = "csv"
    /\ UNCHANGED <<method, csv, df, hcVars, rerunVars, insightVars>>

\* hierarchical-clustering.py main, lines 96-98
ReadCsv ==
    /\ pc = "csv"
    /\ df' = read_csv(csv)
    /\ pc' = "hc_init"
    /\ UNCHANGED <<graphVars, csv, hcVars, rerunVars, insightVars>>

headers == df.columns
matrix == df.values

\* hierarchical_clustering, lines 9-12
HCInit ==
    /\ pc = "hc_init"
    /\ clusters' = singletons(headers)
    /\ edges' = sorted_edges(headers, matrix)
    /\ e' = 0
    /\ pc' = "hc"
    /\ UNCHANGED <<graphVars, csv, df, reordered_fields, rerunVars, insightVars>>

\* hierarchical_clustering, lines 14-26: the next edge
HCStep ==
    /\ pc = "hc"
    /\ e < Len(edges)
    /\ clusters' = cluster_edge(headers, clusters, edges[e + 1])
    /\ e' = e + 1
    /\ UNCHANGED <<graphVars, csv, pc, df, edges, reordered_fields, rerunVars, insightVars>>

\* hierarchical_clustering, lines 28-29
HCReturn ==
    /\ pc = "hc"
    /\ e = Len(edges)
    /\ reordered_fields' = reorder(headers, clusters)
    /\ pc' = "rerun_init"
    /\ UNCHANGED <<graphVars, csv, df, clusters, edges, e, rerunVars, insightVars>>

\* main, lines 109-112
MainInit ==
    /\ pc = "rerun_init"
    /\ mclusters' = singletons(headers)
    /\ medges' = main_sorted_edges(headers, matrix)
    /\ me' = 0
    /\ pc' = "rerun"
    /\ UNCHANGED <<graphVars, csv, df, hcVars, insightVars>>

\* main, lines 113-124: the next edge of the re-run
MainStep ==
    /\ pc = "rerun"
    /\ me < Len(medges)
    /\ mclusters' = main_cluster_edge(headers, mclusters, medges[me + 1])
    /\ me' = me + 1
    /\ UNCHANGED <<graphVars, csv, pc, df, hcVars, medges, insightVars>>

\* main, line 131
TopPairs ==
    /\ pc = "rerun"
    /\ me = Len(medges)
    /\ \E n \in TopNs :
        /\ top_n' = n
        /\ top_pairs' = compute_top_pairs(df, n)
    /\ pc' = "links"
    /\ UNCHANGED <<graphVars, csv, df, hcVars, rerunVars, inter_links, cohesion, json_cohesion>>

\* main, line 141
InterLinks ==
    /\ pc = "links"
    /\ inter_links' = compute_intercluster_links(df, mclusters, top_n)
    /\ pc' = "cohesion"
    /\ UNCHANGED <<graphVars, csv, df, hcVars, rerunVars, top_n, top_pairs, cohesion, json_cohesion>>

\* main, lines 145-155
Cohesion ==
    /\ pc = "cohesion"
    /\ cohesion' = LET ids == Ascending(DOMAIN mclusters)
                   IN  [k \in 1..Len(ids) |-> cohesion_of(df, ids[k], mclusters[ids[k]])]
    /\ pc' = "json"
    /\ UNCHANGED <<graphVars, csv, df, hcVars, rerunVars, top_n, top_pairs, inter_links, json_cohesion>>

\* main, lines 169-206: the JSON payload, written only with --json_out
WriteJson ==
    /\ pc = "json"
    /\ \E json_out \in BOOLEAN :
        json_cohesion' =
            IF json_out
            THEN LET ids == Ascending(DOMAIN mclusters)
                 IN  [k \in 1..Len(ids) |-> json_cohesion_of(df, ids[k], mclusters[ids[k]])]
            ELSE <<>>
    /\ pc' = "done"
    /\ UNCHANGED <<graphVars, csv, df, hcVars, rerunVars, top_n, top_pairs, inter_links, cohesion>>

Next ==
    \/ Dispatch
    \/ Worker
    \/ Collect
    \/ Abort
    \/ CreateMatrix
    \/ GraphExit
    \/ ReadCsv
    \/ HCInit
    \/ HCStep
    \/ HCReturn
    \/ MainInit
    \/ MainStep
    \/ TopPairs
    \/ InterLinks
    \/ Cohesion
    \/ WriteJson

Spec == Init /\ [][Next]_vars

\* ------------------------------------------------------------- claims
Abs(x) == IF x < 0 THEN 0 - x ELSE x

SortedPairs == {p \in Fields \X Fields : p[1] < p[2]}

ReadyResults == {k \in 1..Len(results) : results[k].ready /\ results[k].ok}

AllReady == ReadyResults = 1..Len(results)

FieldsOf(chunk) == [k \in 1..Len(chunk) |-> chunk[k].Field]

\* the matrix file as a frame
Written == read_csv(csv)

\* C1: whatever the trace, the chunking and the counting method, the adjacency matrix
\* written by create_adjacency_matrix is square over one label list, equals its
\* transpose and has a zero diagonal; and no counter or merge ever holds a key that
\* pairs a field with itself.
C1_SymmetricZeroDiagonal ==
    /\ \A k \in ReadyResults : DOMAIN results[k].value \subseteq SortedPairs
    /\ DOMAIN merged_field_pairs \subseteq SortedPairs
    /\ (method # "none" /\ csv # <<>>) =>
          LET n == Len(Written.columns)
          IN  /\ Written.index = Written.columns
              /\ DOMAIN Written.values = (0..(n - 1)) \X (0..(n - 1))
              /\ \A i, j \in 0..(n - 1) :
                    Written.values[<<i, j>>] = Written.values[<<j, i>>]
              /\ \A i \in 0..(n - 1) : Written.values[<<i, i>>] = 0

\* C1 witness: a matrix with a count above 1 has been written from two chunks.
C1_Witness ==
    /\ pc = "written"
    /\ Len(results) >= 2
    /\ \E c \in DOMAIN Written.values : Written.values[c] >= 2

\* the chunk results folded into an empty dict in the order given by perm
RECURSIVE FoldMerge(_, _)
FoldMerge(perm, n) ==
    IF n = 0 THEN EmptyDict
    ELSE merge_field_pairs_incrementally(results[perm[n]].value, FoldMerge(perm, n - 1))

\* the sum of a pair's counts over the first n chunk results
RECURSIVE PairTotal(_, _)
PairTotal(pair, n) ==
    IF n = 0 THEN 0 ELSE Get(results[n].value, pair) + PairTotal(pair, n - 1)

SumOfResults(n) ==
    [pair \in UNION {DOMAIN results[k].value : k \in 1..n} |-> PairTotal(pair, n)]

Orders(n) == {p \in [1..n -> 1..n] : \A a, b \in 1..n : a # b => p[a] # p[b]}

\* C2: once every chunk result is there, folding the results with
\* merge_field_pairs_incrementally in any permutation gives one and the same mapping,
\* the per-pair sum of the chunk counts; and the mapping process_in_chunks has built
\* after retrieving the first `got` results is the per-pair sum over those results.
C2_MergeOrderIndependent ==
    /\ (pc = "collect" /\ AllReady) =>
          \A perm \in Orders(Len(results)) :
              FoldMerge(perm, Len(results)) = SumOfResults(Len(results))
    /\ (pc = "collect" /\ \A k \in 1..got : results[k].ready) =>
          merged_field_pairs = SumOfResults(got)

\* C2 witness: two chunks that both count the same pair have been merged.
C2_Witness ==
    /\ pc = "collect"
    /\ got = Len(results)
    /\ got >= 2
    /\ \E pair \in SortedPairs :
          /\ pair \in DOMAIN results[1].value
          /\ pair \in DOMAIN results[2].value
          /\ merged_field_pairs[pair] = results[1].value[pair] + results[2].value[pair]

\* the unordered pairs of events of a chunk that touch fields a and b (a # b) at
\* most window_size ticks apart
EventPairsInWindow(chunk, window_size, a, b) ==
    Cardinality({p \in (1..Len(chunk)) \X (1..Len(chunk)) :
        /\ p[1] < p[2]
        /\ {chunk[p[1]].Field, chunk[p[2]].Field} = {a, b}
        /\ Abs(chunk[p[1]].Timestamp - chunk[p[2]].Timestamp) <= window_size})

ScenarioC3(chunk) ==
    chunk = <<[Timestamp |-> 0, Field |-> 1], [Timestamp |-> 1, Field |-> 2],
              [Timestamp |-> 2, Field |-> 3]>>

\* C3 as stated: under the window method every in-window pair of events with
\* different fields adds exactly 1 to its field pair, so the scenario
\* [(0,A),(1,B),(2,C)] with window_size 1 gives (A,B) = 1 and (B,C) = 1.
C3_Original ==
    method = "window" =>
        \A k \in ReadyResults :
            /\ \A pair \in SortedPairs :
                  Get(results[k].value, pair) =
                      EventPairsInWindow(results[k].chunk, param, pair[1], pair[2])
            /\ (ScenarioC3(results[k].chunk) /\ param = 1) =>
                  results[k].value = [pair \in {<<1, 2>>, <<2, 3>>} |-> 1]

\* C3 as amended: under the window method every in-window pair of events with
\* different fields adds exactly 2 to its field pair (once from each of its two
\* events), pairs further apart add nothing and leave no key, and the scenario
\* [(0,A),(1,B),(2,C)] with window_size 1 gives (A,B) = 2, (B,C) = 2, no (A,C).
C3_WindowCountsTwice ==
    method = "window" =>
        \A k \in ReadyResults :
            /\ \A pair \in SortedPairs :
                  LET n == EventPairsInWindow(results[k].chunk, param, pair[1], pair[2])
                  IN  /\ Get(results[k].value, pair) = 2 * n
                      /\ pair \in DOMAIN results[k].value <=> n > 0
            /\ (ScenarioC3(results[k].chunk) /\ param = 1) =>
                  results[k].value = [pair \in {<<1, 2>>, <<2, 3>>} |-> 2]

\* C3 witness: the scenario chunk has been counted with window_size 1.
C3_Witness ==
    /\ method = "window"
    /\ param = 1
    /\ \E k \in ReadyResults :
          /\ ScenarioC3(results[k].chunk)
          /\ results[k].value = [pair \in {<<1, 2>>, <<2, 3>>} |-> 2]

\* the stack distance of field g below the top when row r of the chunk is handled:
\* the number of distinct fields other than the current one that were accessed
\* since the last access to g before r (g included); 0 when g was not accessed
StackDistance(chunk, r, g) ==
    LET before == {q \in 1..(r - 1) : chunk[q].Field = g}
    IN  IF before = {} \/ chunk[r].Field = g THEN 0
        ELSE LET last == CHOOSE q \in before : \A x \in before : x <= q
             IN  Cardinality({chunk[q].Field : q \in last..(r - 1)} \ {chunk[r].Field})

\* the rows of a chunk at which fields a and b are within stack distance d
CloseEvents(chunk, d, a, b) ==
    {r \in 1..Len(chunk) :
        \/ chunk[r].Field = a /\ StackDistance(chunk, r, b) \in 1..d
        \/ chunk[r].Field = b /\ StackDistance(chunk, r, a) \in 1..d}

\* C4: under the stack method with threshold d, a field pair's count is the number
\* of events whose field is one of the pair while the other lies at stack distance
\* 1..d below the new top, and nothing else is counted; the sequence [A,B,A,C]
\* with d = 1 gives (A,B) = 2, (A,C) = 1 and no key (B,C).
C4_StackDistanceCounts ==
    method = "stack" =>
        \A k \in ReadyResults :
            /\ \A pair \in SortedPairs :
                  LET close == CloseEvents(results[k].chunk, param, pair[1], pair[2])
                  IN  /\ Get(results[k].value, pair) = Cardinality(close)
                      /\ pair \in DOMAIN results[k].value <=> close # {}
            /\ (FieldsOf(results[k].chunk) = <<1, 2, 1, 3>> /\ param = 1) =>
                  results[k].value = [pair \in {<<1, 2>>, <<1, 3>>} |->
                                         IF pair = <<1, 2>> THEN 2 ELSE 1]

\* C4 witness: the sequence [A,B,A,C] has been counted with threshold 1.
C4_Witness ==
    /\ method = "stack"
    /\ param = 1
    /\ \E k \in ReadyResults :
          /\ FieldsOf(results[k].chunk) = <<1, 2, 1, 3>>
          /\ Get(results[k].value, <<1, 2>>) = 2
          /\ Get(results[k].value, <<1, 3>>) = 1
          /\ <<2, 3>> \notin DOMAIN results[k].value

DistinctTimestamps(chunk) ==
    \A a, b \in 1..Len(chunk) : a # b => chunk[a].Timestamp # chunk[b].Timestamp

\* C5: the window method with window_size 0 returns the empty mapping for every
\* chunk whose rows have pairwise distinct timestamps.
C5_ZeroWindowCountsNothing ==
    (method = "window" /\ param = 0) =>
        \A k \in ReadyResults :
            DistinctTimestamps(results[k].chunk) => results[k].value = EmptyDict

\* C5 witness: a chunk of rows with different fields and distinct timestamps, not in
\* time order, has been counted with window_size 0.
C5_Witness ==
    /\ method = "window"
    /\ param = 0
    /\ \E k \in ReadyResults :
          /\ Len(results[k].chunk) >= 2
          /\ DistinctTimestamps(results[k].chunk)
          /\ results[k].chunk[1].Timestamp > results[k].chunk[2].Timestamp
          /\ results[k].chunk[1].Field # results[k].chunk[2].Field
          /\ results[k].value = EmptyDict

AfterHC == pc \in {"rerun_init", "rerun", "links", "cohesion", "json", "done"}

AfterRerun == pc \in {"links", "cohesion", "json", "done"} \/ (pc = "rerun" /\ me = Len(medges))

AfterLinks == pc \in {"cohesion", "json", "done"}

AfterCohesion == pc \in {"json", "done"}

\* the matrix [[0,5,0],[5,0,1],[0,1,0]] over the fields [A,B,C]
ScenarioC6 ==
    /\ headers = <<1, 2, 3>>
    /\ matrix = [c \in (0..2) \X (0..2) |->
                    IF c \in {<<0, 1>>, <<1, 0>>} THEN 5
                    ELSE IF c \in {<<1, 2>>, <<2, 1>>} THEN 1 ELSE 0]

\* C6: on the matrix [[0,5,0],[5,0,1],[0,1,0]] over [A,B,C], hierarchical_clustering
\* handles the edge A-B of weight 5 first and merges A with B, then handles the edge
\* B-C of weight 1 and merges that cluster with C; it ends with the single cluster
\* [A,B,C] and returns the reordering [A,B,C].
C6_ScenarioClustering ==
    ScenarioC6 =>
        /\ pc = "hc" => edges = <<(<<5, 0, 1>>), (<<1, 1, 2>>)>>
        /\ (pc = "hc" /\ e = 0) =>
              clusters = [c \in {0, 1, 2} |-> <<c + 1>>]
        /\ (pc = "hc" /\ e = 1) =>
              clusters = [c \in {0, 2} |-> IF c = 0 THEN <<1, 2>> ELSE <<3>>]
        /\ ((pc = "hc" /\ e = 2) \/ AfterHC) =>
              clusters = [c \in {0} |-> <<1, 2, 3>>]
        /\ AfterHC => reordered_fields = <<1, 2, 3>>

\* C6 witness: the scenario has been clustered to its end.
C6_Witness ==
    /\ ScenarioC6
    /\ pc = "done"
    /\ e = 2
    /\ reordered_fields = <<1, 2, 3>>

\* the clusters of a dict as a set of member sets
Partition(cl) == {Range(cl[c]) : c \in DOMAIN cl}

\* C7: the clustering re-run inside main works through the same edge list as
\* hierarchical_clustering and ends with the same clusters (same ids, same members
\* in the same order, hence the same partition), and the reordering returned by
\* hierarchical_clustering is the one those clusters give.
C7_RerunAgrees ==
    /\ pc = "rerun" => medges = edges
    /\ AfterRerun =>
          /\ mclusters = clusters
          /\ Partition(mclusters) = Partition(clusters)
          /\ reordered_fields = reorder(headers, mclusters)

\* C7 witness: a matrix with two edges of equal weight has been clustered twice.
C7_Witness ==
    /\ pc = "done"
    /\ Len(edges) >= 2
    /\ edges[1][1] = edges[2][1]
    /\ \E c \in DOMAIN mclusters : Len(mclusters[c]) >= 2
    /\ mclusters = clusters

\* the places of a cluster's members in the reordering
Places(cluster) == {k \in 1..Len(reordered_fields) : reordered_fields[k] \in Range(cluster)}

\* C8: in the reordering returned by hierarchical_clustering every field of the
\* matrix appears exactly once, and the members of each final cluster fill a run of
\* consecutive places.
C8_ClustersContiguous ==
    AfterHC =>
        /\ Len(reordered_fields) = Len(headers)
        /\ \A f \in Range(headers) :
              Cardinality({k \in 1..Len(reordered_fields) : reordered_fields[k] = f}) = 1
        /\ \A c \in DOMAIN clusters :
              /\ Cardinality(Places(clusters[c])) = Len(clusters[c])
              /\ \A a, b \in Places(clusters[c]) :
                    \A k \in a..b : k \in Places(clusters[c])

\* C8 witness: A and C share a cluster and B is alone, and the layout is [A,C,B].
C8_Witness ==
    /\ pc = "done"
    /\ Partition(clusters) = {{1, 3}, {2}}
    /\ reordered_fields = <<1, 3, 2>>

\* the matrix cell of row field x and column field y
Cell(x, y) == matrix[<<position(df.index, x), position(df.columns, y)>>]

Symmetric ==
    /\ df.index = df.columns
    /\ \A x, y \in Range(headers) : Cell(x, y) = Cell(y, x)

\* the largest weight of an edge that crosses the boundary between two member sets
BoundaryMax(A, B) ==
    SetMax({Cell(x, y) : x \in A, y \in B} \cup {Cell(y, x) : x \in A, y \in B})

\* C9: compute_intercluster_links reports each unordered pair of distinct final
\* clusters at most once, min(top_n, number of pairs) of them in all, and the weight
\* it reports for a pair is the largest cell in the rows of the first and the
\* columns of the second cluster: on a symmetric matrix the largest weight between
\* a member of one and a member of the other, never more than the largest edge
\* crossing the boundary, and 0 when no positive edge crosses it.
C9_LinkIsBoundaryMax ==
    AfterLinks =>
        LET k == Cardinality(DOMAIN mclusters)
        IN  /\ Len(inter_links) = Min(top_n, (k * (k - 1)) \div 2)
            /\ \A x, y \in 1..Len(inter_links) :
                  (x # y) => <<inter_links[x][1], inter_links[x][2]>> #
                             <<inter_links[y][1], inter_links[y][2]>>
            /\ \A x \in 1..Len(inter_links) :
                  LET link == inter_links[x]
                  IN  /\ link[1] \in DOMAIN mclusters
                      /\ link[2] \in DOMAIN mclusters
                      /\ link[1] < link[2]
                      /\ LET A == Range(mclusters[link[1]])
                             B == Range(mclusters[link[2]])
                         IN  /\ link[3] = SetMax({Cell(a, b) : a \in A, b \in B})
                             /\ link[3] <= BoundaryMax(A, B)
                             /\ BoundaryMax(A, B) = 0 => link[3] = 0
                             /\ Symmetric => link[3] = BoundaryMax(A, B)

\* C9 witness: a symmetric matrix has ended in several clusters, one of them with
\* two members, and a link between two of them has been reported.
C9_Witness ==
    /\ pc = "done"
    /\ Symmetric
    /\ Len(inter_links) >= 1
    /\ \E c \in DOMAIN mclusters : Len(mclusters[c]) >= 2

\* the sum of the weights over the unordered pairs of a set of member pairs
RECURSIVE PairWeightSum(_)
PairWeightSum(pairs) ==
    IF pairs = {} THEN 0
    ELSE LET p == CHOOSE q \in pairs : TRUE
         IN  Cell(p[1], p[2]) + PairWeightSum(pairs \ {p})

MaxEntry == SetMax({0} \cup {matrix[c] : c \in DOMAIN matrix})

CohesionRecords == Range(cohesion) \cup Range(json_cohesion)

\* C10 as stated: when the matrix holds the co-access counts of one counting
\* method, the cohesion density of every final cluster lies in [0, 1].
C10_Original ==
    (method # "none" /\ AfterCohesion) =>
        \A r \in CohesionRecords :
            /\ 0 <= r.density[1]
            /\ r.density[1] <= r.density[2]

\* C10 as amended: the cohesion density of every final cluster is 0 for a singleton
\* and otherwise intra_sum / (size * (size - 1) / 2), where intra_sum is (on a
\* symmetric matrix) the sum of the weights over the unordered pairs of members; it
\* lies in [0, W] with W the largest entry of the matrix, in the text report and in
\* the JSON payload alike.
C10_DensityBoundedByMaxEntry ==
    AfterCohesion =>
        /\ Len(cohesion) = Cardinality(DOMAIN mclusters)
        /\ json_cohesion \in {<<>>, cohesion}
        /\ \A r \in CohesionRecords :
              LET members == mclusters[r.cluster_id]
              IN  /\ r.size = Len(members)
                  /\ r.size = 1 => (r.intra_sum = 0 /\ r.density = <<0, 1>>)
                  /\ r.size > 1 =>
                        /\ r.density[2] > 0
                        /\ r.density[1] * r.size * (r.size - 1) = 2 * r.intra_sum * r.density[2]
                  /\ Symmetric =>
                        r.intra_sum = PairWeightSum({p \in Range(members) \X Range(members) :
                                                        p[1] < p[2]})
                  /\ 0 <= r.density[1]
                  /\ r.density[1] <= MaxEntry * r.density[2]

\* C10 witness: a matrix of co-access counts has a cluster whose density exceeds 1.
C10_Witness ==
    /\ method # "none"
    /\ pc = "done"
    /\ json_cohesion = cohesion
    /\ \E k \in 1..Len(cohesion) :
          /\ cohesion[k].size >= 2
          /\ cohesion[k].density[1] > cohesion[k].density[2]

AfterTopPairs == pc \in {"links", "cohesion", "json", "done"}

\* the cells above the diagonal that hold a weight above 0
PositiveUpper ==
    {c \in DOMAIN matrix : c[1] < c[2] /\ matrix[c] > 0}

\* C11: compute_top_pairs(df, N) returns min(N, number of positive upper-triangle
\* pairs) entries, so at most N; each is an upper-triangle pair (first field before
\* the second in the header) with its own strictly positive weight, no pair comes
\* twice, the weights do not increase along the list, and no positive pair that was
\* left out weighs more than a returned one. On [[0,5,0],[5,0,1],[0,1,0]] over
\* [A,B,C] with N = 1 the result is exactly [(A,B,5)].
C11_TopPairs ==
    AfterTopPairs =>
        LET all == {<<headers[c[1] + 1], headers[c[2] + 1], matrix[c]>> : c \in PositiveUpper}
        IN  /\ Len(top_pairs) <= top_n
            /\ Len(top_pairs) = Min(top_n, Cardinality(PositiveUpper))
            /\ Range(top_pairs) \subseteq all
            /\ \A x \in Range(top_pairs) : x[3] > 0
            /\ Cardinality(Range(top_pairs)) = Len(top_pairs)
            /\ \A k \in 1..(Len(top_pairs) - 1) : top_pairs[k][3] >= top_pairs[k + 1][3]
            /\ \A x \in all \ Range(top_pairs) : \A y \in Range(top_pairs) : x[3] <= y[3]
            /\ (ScenarioC6 /\ top_n = 1) => top_pairs = <<(<<1, 2, 5>>)>>

\* C11 witness: the scenario matrix has been asked for its single top pair, and the
\* positive pair B-C has been left out.
C11_Witness ==
    /\ pc = "done"
    /\ ScenarioC6
    /\ top_n = 1
    /\ top_pairs = <<(<<1, 2, 5>>)>>
    /\ Cardinality(PositiveUpper) = 2

\* the fields that occur in at least one access event of the input
Accessed == {rows[k].Field : k \in 1..Len(rows)}

\* C12: the row and column labels of the adjacency matrix written from a trace are
\* exactly the fields that occur in at least one access event: an accessed field
\* that was never counted with another field still has its (all-zero) row and
\* column, and a field that was never accessed has none.
C12_LabelsAreAccessedFields ==
    pc = "written" =>
        /\ Range(Written.columns) = Accessed
        /\ Range(Written.index) = Accessed

\* the chunks whose task ended by raising
Failed == {k \in 1..Len(results) : ~results[k].ok}

\* C13: when the task of a chunk fails, the run is aborted and no adjacency matrix
\* is written, whichever chunk it is and however many results were merged before:
\* a failed result is never merged, it is found only in an aborted run, an aborted
\* run has written no file and starts no clustering, and a file that was written
\* was built from the successful results of all chunks.
C13_FailureAborts ==
    /\ \A k \in Failed :
          /\ got < k
          /\ pc = "aborted"
    /\ pc = "aborted" =>
          /\ Failed = {got + 1}
          /\ csv = <<>>
          /\ df = NoFrame
    /\ pc = "written" =>
          /\ Failed = {}
          /\ AllReady
          /\ got = Len(results)

\* C13 witness: the second chunk failed after the counts of the first were merged,
\* and the run was aborted with no file written.
C13_Witness ==
    /\ pc = "aborted"
    /\ csv = <<>>
    /\ Len(results) >= 2
    /\ got = 1
    /\ merged_field_pairs # EmptyDict
    /\ ~results[2].ok

\* C14: a matrix that is not symmetric is refused by the clustering before any
\* merge: no cluster is ever merged on it, and no clustering and no reordering is
\* returned for it.
C14_AsymmetricRejected ==
    ~Symmetric =>
        /\ pc = "hc" => clusters = singletons(headers)
        /\ ~AfterHC

\* an edge list holds every positive cell above the diagonal once, with its weight,
\* heavier edges first and edges of equal weight by row, then by column
EdgeOrder(es) ==
    /\ Len(es) = Cardinality(PositiveUpper)
    /\ {<<es[k][2], es[k][3]>> : k \in 1..Len(es)} = PositiveUpper
    /\ \A k \in 1..Len(es) :
          /\ es[k][1] = matrix[<<es[k][2], es[k][3]>>]
          /\ es[k][1] > 0
    /\ \A k \in 1..(Len(es) - 1) :
          \/ es[k][1] > es[k + 1][1]
          \/ /\ es[k][1] = es[k + 1][1]
             /\ \/ es[k][2] < es[k + 1][2]
                \/ (es[k][2] = es[k + 1][2] /\ es[k][3] < es[k + 1][3])

\* the clusters after the first k edges of a list have been handled in list order
RECURSIVE Replay(_, _)
Replay(es, k) ==
    IF k = 0 THEN singletons(headers)
    ELSE cluster_edge(headers, Replay(es, k - 1), es[k])

\* C15: the clustering handles the positive edges of the upper triangle, each once,
\* in non-increasing weight order and, among edges of equal weight, in ascending
\* order of the row index i and then the column index j; an edge of weight 0 is
\* never handled. After e steps the clusters are those of the first e edges of
\* that order, in hierarchical_clustering and in the re-run of main alike.
C15_EdgeOrder ==
    /\ pc = "hc" =>
          /\ EdgeOrder(edges)
          /\ e \in 0..Len(edges)
          /\ clusters = Replay(edges, e)
    /\ pc = "rerun" =>
          /\ EdgeOrder(medges)
          /\ me \in 0..Len(medges)
          /\ mclusters = Replay(medges, me)

\* C15 witness: three edges, the last two of equal weight, have all been handled.
C15_Witness ==
    /\ pc = "hc"
    /\ Len(edges) = 3
    /\ e = 3
    /\ edges[1][1] > edges[2][1]
    /\ edges[2][1] = edges[3][1]

\* the member lists of the clusters with the given ids, one after the other
RECURSIVE Concatenation(_, _)
Concatenation(cl, ids) ==
    IF ids = <<>> THEN <<>>
    ELSE cl[Head(ids)] \o Concatenation(cl, Tail(ids))

\* C16: the reordering returned by hierarchical_clustering lists the surviving
\* clusters in the order of their creation and the members of each cluster in the
\* order in which the cluster took them in: it is the concatenation of the member
\* lists of the final clusters.
C16_ReorderingIsConcatenation ==
    AfterHC =>
        reordered_fields = Concatenation(clusters, Ascending(DOMAIN clusters))

Clustering == pc = "hc" \/ AfterHC

\* the id of the cluster of cl that holds a field
ClusterOf(cl, field) == CHOOSE c \in DOMAIN cl : field \in Range(cl[c])

\* C17 as stated: the cluster that survives a merge keeps the lower of the two ids,
\* so the id of every cluster is the smallest original index among its members.
C17_Original ==
    Clustering =>
        \A c \in DOMAIN clusters :
            \A f \in Range(clusters[c]) : c <= position(headers, f)

\* C17 as amended: the cluster that survives a merge is the one that holds the first
\* endpoint of the edge (the field of row i, i < j); it takes in the members of the
\* cluster of the second endpoint behind its own, and the id of that cluster is
\* removed, be it the lower or the higher one. Every cluster's id is the original
\* index of its first member.
C17_FirstEndpointSurvives ==
    /\ Clustering =>
          \A c \in DOMAIN clusters : clusters[c][1] = headers[c + 1]
    /\ (pc = "hc" /\ e >= 1) =>
          LET before == Replay(edges, e - 1)
              first == ClusterOf(before, headers[edges[e][2] + 1])
              second == ClusterOf(before, headers[edges[e][3] + 1])
          IN  IF first = second THEN clusters = before
              ELSE /\ DOMAIN clusters = DOMAIN before \ {second}
                   /\ clusters[first] = before[first] \o before[second]
                   /\ \A c \in DOMAIN clusters \ {first} : clusters[c] = before[c]

\* C17 witness: A-C was merged into cluster 0, then the edge B-C merged cluster 0
\* into cluster 1, the higher id, which does not hold the smallest index.
C17_Witness ==
    /\ pc = "hc"
    /\ e = 2
    /\ headers = <<1, 2, 3>>
    /\ Replay(edges, 1) = [c \in {0, 1} |-> IF c = 0 THEN <<1, 3>> ELSE <<2>>]
    /\ clusters = [c \in {1} |-> <<2, 1, 3>>]

\* every field of the header is a member of exactly one cluster of cl, once, and no
\* cluster is empty
IsPartition(cl) ==
    /\ \A c \in DOMAIN cl :
          /\ cl[c] # <<>>
          /\ Range(cl[c]) \subseteq Range(headers)
          /\ Cardinality(Range(cl[c])) = Len(cl[c])
    /\ \A f \in Range(headers) :
          Cardinality({c \in DOMAIN cl : f \in Range(cl[c])}) = 1

\* C18: after initialisation and after every step of the clustering the clusters
\* are a partition of the fields: every field is in exactly one cluster and no
\* cluster is empty. The clustering starts from one singleton per field; a step
\* never splits a cluster, and it lowers the number of clusters by exactly one when
\* it merges (the endpoints of its edge were in two clusters) and leaves the
\* clusters alone otherwise.
C18_Partition ==
    /\ Clustering => IsPartition(clusters)
    /\ (pc = "rerun" \/ AfterRerun) => IsPartition(mclusters)
    /\ (pc = "hc" /\ e = 0) => Partition(clusters) = {{f} : f \in Range(headers)}
    /\ (pc = "hc" /\ e >= 1) =>
          LET before == Replay(edges, e - 1)
              apart == ClusterOf(before, headers[edges[e][2] + 1]) #
                       ClusterOf(before, headers[edges[e][3] + 1])
          IN  /\ \A c \in DOMAIN before :
                    \E d \in DOMAIN clusters : Range(before[c]) \subseteq Range(clusters[d])
              /\ apart => Cardinality(DOMAIN clusters) = Cardinality(DOMAIN before) - 1
              /\ ~apart => clusters = before

\* C18 witness: two merges have left one cluster of three fields, and a third edge
\* whose endpoints were already together has changed nothing.
C18_Witness ==
    /\ pc = "hc"
    /\ e = 3
    /\ Cardinality(DOMAIN Replay(edges, 1)) = 2
    /\ Cardinality(DOMAIN Replay(edges, 2)) = 1
    /\ clusters = Replay(edges, 2)
    /\ Partition(clusters) = {{1, 2, 3}}

\* the orders in which the counter of the run may go through the rows of a chunk
ProcessingOrders(chunk) ==
    IF method = "window" THEN sort_values(chunk) ELSE {iterrows(chunk)}

InTimeOrder(chunk) ==
    \A k \in 1..(Len(chunk) - 1) : chunk[k].Timestamp <= chunk[k + 1].Timestamp

\* C19: under the window and under the stack method alike, the counter goes through
\* the rows of every chunk in ascending timestamp order, also when the rows of the
\* input are not in timestamp order.
C19_ChunksInTimeOrder ==
    \A k \in ReadyResults :
        \A order \in ProcessingOrders(results[k].chunk) : InTimeOrder(order)

\* the counts of the input from row `from` on, chunk after chunk in one process
RECURSIVE SequentialCounts(_)
SequentialCounts(from) ==
    IF from >= Len(rows) THEN EmptyDict
    ELSE LET last == Min(from + chunksize, Len(rows))
             chunk == [k \in 1..(last - from) |->
                          [Timestamp |-> float32(rows[from + k].Timestamp),
                           Field |-> rows[from + k].Field]]
             counts == IF method = "window"
                       THEN CHOOSE v \in process_chunk_window(chunk, param) : TRUE
                       ELSE process_chunk_stack(chunk, param)
         IN  merge_field_pairs_incrementally(counts, SequentialCounts(last))

\* C20: however the tasks of the pool interleave with each other, with the dispatch
\* of later chunks and with the retrieval of earlier results, no matrix file exists
\* while chunks are dispatched and results collected; when the file is written every
\* row has been dispatched and the result of every chunk has been retrieved and
\* merged, and the file is the one a sequential pass over the chunks gives, so it is
\* the same for all interleavings.
C20_MatrixAfterAllResults ==
    /\ pc \in {"dispatch", "collect", "aborted"} => csv = <<>>
    /\ pc = "written" =>
          /\ next_row = Len(rows)
          /\ AllReady
          /\ got = Len(results)
          /\ merged_field_pairs = SumOfResults(Len(results))
          /\ csv = to_csv(create_adjacency_matrix(SequentialCounts(0)))

\* C20 witness: a matrix with labels has been written from two chunks that both
\* gave counts.
C20_Witness ==
    /\ pc = "written"
    /\ Len(results) = 2
    /\ results[1].value # EmptyDict
    /\ results[2].value # EmptyDict
    /\ Len(Written.columns) >= 2

NumChunks == (Len(rows) + chunksize - 1) \div chunksize

\* the k-th chunk of the input: its rows (k-1)*chunksize+1 .. k*chunksize, as read
ChunkOf(k) ==
    LET from == (k - 1) * chunksize
    IN  [i \in 1..Min(chunksize, Len(rows) - from) |->
            [Timestamp |-> float32(rows[from + i].Timestamp),
             Field |-> rows[from + i].Field]]

\* what the events of one chunk alone give a pair under the method of the run
ChunkCount(chunk, pair) ==
    IF method = "window"
    THEN 2 * EventPairsInWindow(chunk, param, pair[1], pair[2])
    ELSE Cardinality(CloseEvents(chunk, param, pair[1], pair[2]))

RECURSIVE ChunkTotal(_, _)
ChunkTotal(pair, k) ==
    IF k = 0 THEN 0 ELSE ChunkCount(ChunkOf(k), pair) + ChunkTotal(pair, k - 1)

\* C21: no counting state passes from one chunk to the next. Every task gets one
\* chunk of the input and counts from an empty stack (or scans inside the chunk
\* only), so the count of every pair in the merged mapping is the sum over the
\* chunks of what the events of that chunk alone give, and a pair is counted only
\* if both its fields occur in one and the same chunk: two events of different
\* chunks never add a co-access.
C21_NoCarryOver ==
    pc = "written" =>
        /\ Len(results) = NumChunks
        /\ \A k \in 1..NumChunks : results[k].chunk = ChunkOf(k)
        /\ \A pair \in SortedPairs :
              Get(merged_field_pairs, pair) = ChunkTotal(pair, NumChunks)
        /\ \A pair \in DOMAIN merged_field_pairs :
              \E k \in 1..NumChunks :
                  {pair[1], pair[2]} \subseteq Range(FieldsOf(ChunkOf(k)))

\* C21 witness: [A,B,C,A] was counted in the chunks [A,B] and [C,A] with a
\* threshold above 0. B and C are neighbours across the chunk border and have no
\* count, while one pass over the four rows would have counted them.
C21_Witness ==
    /\ pc = "written"
    /\ method = "stack"
    /\ param >= 1
    /\ chunksize = 2
    /\ FieldsOf(rows) = <<1, 2, 3, 1>>
    /\ <<2, 3>> \notin DOMAIN merged_field_pairs
    /\ Get(process_chunk_stack(rows, param), <<2, 3>>) >= 1

\* the fields that a path of positive-weight edges joins to a field of S
RECURSIVE Reachable(_)
Reachable(S) ==
    LET more == S \cup {y \in Range(headers) :
                            \E x \in S : Cell(x, y) > 0 \/ Cell(y, x) > 0}
    IN  IF more = S THEN S ELSE Reachable(more)

\* the connected components of the graph of positive-weight edges
Components == {Reachable({f}) : f \in Range(headers)}

\* C22: on a symmetric matrix the clusters that hierarchical_clustering and the
\* re-run of main end with are exactly the connected components of the graph of
\* positive-weight edges: two fields share a cluster if and only if a path of
\* positive-weight edges joins them. Every link that compute_intercluster_links
\* reports between two final clusters therefore has weight 0.
C22_ClustersAreComponents ==
    Symmetric =>
        /\ AfterHC => Partition(clusters) = Components
        /\ AfterRerun => Partition(mclusters) = Components
        /\ AfterLinks => \A x \in 1..Len(inter_links) : inter_links[x][3] = 0

\* C22 witness: a symmetric matrix with a positive edge has ended in a cluster of
\* two fields and a singleton, and the link reported between them weighs 0.
C22_Witness ==
    /\ pc = "done"
    /\ Symmetric
    /\ Len(headers) = 3
    /\ Cardinality(Components) = 2
    /\ \E c \in DOMAIN mclusters : Len(mclusters[c]) = 2
    /\ Len(inter_links) = 1
    /\ inter_links[1][3] = 0
====
